---- MODULE Spec2Model ----
(***************************************************************************)
(* Model of python_solution/parse_data.ipynb: the contract parsing and     *)
(* feature derivation pipeline                                             *)
(*   read_csv -> parse_contracts -> convert_data_types ->                  *)
(*   {calculate_tot_claim_cnt_l180d, calculate_disb_bank_loan_wo_tbc,      *)
(*    calculate_day_sinlastloan} -> merge -> features_df,                  *)
(* with the cell of the second parsing option (parse_contracts_by_explode) *)
(* run between convert_data_types and the feature cell.                    *)
(*                                                                         *)
(* Representation.                                                         *)
(*  - An optional value (None / NaN / NaT / <NA>) is a sequence of length  *)
(*    at most one: None is <<>>, a present value v is <<v>>.               *)
(*  - A date text "dd.mm.yyyy" is the tuple <<dd, mm, yyyy>>; an           *)
(*    application_date text "yyyy-mm-dd <time>" is <<yyyy, mm, dd, t>>,    *)
(*    t numbering the time-of-day suffixes in ascending string order.      *)
(*    A parsed date is its proleptic Gregorian day number.                 *)
(*  - A numeric text is <<"num", n>> (the decimal numeral of n) or         *)
(*    <<"bad">> (text that is not a number).                               *)
(*  - A JSON object is a function from the keys it contains to values.     *)
(*  - A contracts cell is a record tagged by kind, see the texts below.    *)
(*  - dtypes maps the columns of the frame in data to their pandas dtype;  *)
(*    csv_dtypes does so for the frame read_csv returned. An id column of  *)
(*    dtype int64 holds the integer n as n; an id column of dtype float64  *)
(*    holds the non-integral number n + 0.5 as n.                          *)
(*  - second_df and second are the frame df and the outcome of the        *)
(*    notebook's second parsing option; disb_dtype is the dtype of the     *)
(*    value column of disb_bank_loan_wo_tbc.                               *)
(***************************************************************************)
EXTENDS Integers, Sequences, FiniteSets, TLC

VARIABLES pc, csv, data, deduped, error,
          application_dates, tot_claim_cnt_l180d, disb_bank_loan_wo_tbc,
          day_sinlastloan, features_df,
          csv_dtypes, dtypes, second_df, second, disb_dtype

vars == <<pc, csv, data, deduped, error, application_dates,
          tot_claim_cnt_l180d, disb_bank_loan_wo_tbc, day_sinlastloan,
          features_df, csv_dtypes, dtypes, second_df, second, disb_dtype>>

(* ---------------- bounds ---------------- *)
MaxRecords == 2
MaxContracts == 2

(* ---------------- optional values ---------------- *)
None == <<>>
Some(v) == <<v>>
notna(x) == x # None

Num(n) == <<"num", n>>
BadText == <<"bad">>

(* ---------------- calendar ---------------- *)
IsLeap(y) == (y % 4 = 0 /\ y % 100 # 0) \/ y % 400 = 0

DaysInMonth(y, m) ==
  IF m = 2 THEN (IF IsLeap(y) THEN 29 ELSE 28)
  ELSE IF m \in {4, 6, 9, 11} THEN 30 ELSE 31

RECURSIVE DaysBeforeMonth(_, _)
DaysBeforeMonth(y, m) ==
  IF m <= 1 THEN 0 ELSE DaysBeforeMonth(y, m - 1) + DaysInMonth(y, m - 1)

DaysBeforeYear(y) ==
  (y - 1) * 365 + ((y - 1) \div 4) - ((y - 1) \div 100) + ((y - 1) \div 400)

ValidDate(y, m, d) == y >= 1 /\ m \in 1..12 /\ d >= 1 /\ d <= DaysInMonth(y, m)

Ordinal(y, m, d) == DaysBeforeYear(y) + DaysBeforeMonth(y, m) + d

(* pd.to_datetime(col, format='%d.%m.%Y', errors='coerce') on one cell *)
to_datetime_dmy(x) ==
  IF x = None THEN None
  ELSE LET t == x[1] IN
       IF ValidDate(t[3], t[2], t[1]) THEN Some(Ordinal(t[3], t[2], t[1]))
       ELSE None

(* .str.split().str[0] followed by pd.to_datetime(errors='coerce') *)
to_datetime_app(t) ==
  LET token == <<t[1], t[2], t[3]>> IN
  IF ValidDate(token[1], token[2], token[3])
  THEN Some(Ordinal(token[1], token[2], token[3]))
  ELSE None

(* pd.to_numeric(col, errors='coerce') on one cell *)
to_numeric(x) ==
  IF x = None THEN None
  ELSE IF x[1][1] = "num" THEN Some(x[1][2]) ELSE None

(* ---------------- contract objects ---------------- *)
Field(k, opt) == IF opt = None THEN <<>> ELSE (k :> opt[1])

ScenarioA == [bank |-> "ALPHA", loan_summa |-> Num(1000),
              contract_date |-> <<1, 1, 2024>>, claim_date |-> <<1, 1, 2024>>]
ScenarioB == [bank |-> "MKO", loan_summa |-> Num(500),
              contract_date |-> <<1, 1, 2024>>]
ScenarioE == [summa |-> Num(750), contract_date |-> <<1, 1, 2024>>]
FullContract == [contract_id |-> "c1", bank |-> "ALPHA", summa |-> Num(750),
                 loan_summa |-> Num(1000), claim_date |-> <<3, 9, 2023>>,
                 claim_id |-> "k1", contract_date |-> <<15, 2, 2024>>]

Fixtures == <<ScenarioA, ScenarioB, ScenarioE, FullContract>>

\* claim dates around the window of application date 2024-03-01:
\* A-181, A-180, A, A+1, and the impossible 31.02.2024
ClaimDates == << <<2, 9, 2023>>, <<3, 9, 2023>>, <<1, 3, 2024>>,
                 <<2, 3, 2024>>, <<31, 2, 2024>> >>
ClaimSlice == [i \in 1..Len(ClaimDates) |->
                 [claim_date |-> ClaimDates[i], claim_id |-> "k1"]]

SliceBanks == <<None, Some("ALPHA"), Some("MKO")>>
SliceDisbDates == <<None, Some(<<1, 1, 2024>>)>>
SliceLoans == <<None, Some(Num(1000)), Some(Num(-1000))>>
LoanSlice == [i \in 1..18 |->
                Field("bank", SliceBanks[((i - 1) % 3) + 1])
                @@ Field("contract_date", SliceDisbDates[(((i - 1) \div 3) % 2) + 1])
                @@ Field("loan_summa", SliceLoans[((i - 1) \div 6) + 1])]

SliceSummas == <<Some(Num(750)), Some(Num(0)), Some(BadText)>>
SliceLoanDates == <<None, Some(<<1, 1, 2024>>), Some(<<1, 3, 2024>>),
                    Some(<<2, 3, 2024>>)>>
SummaSlice == [i \in 1..12 |->
                 Field("summa", SliceSummas[((i - 1) % 3) + 1])
                 @@ Field("contract_date", SliceLoanDates[((i - 1) \div 3) + 1])]

\* every contract object of the model, in the order their serialisations sort
Contracts == Fixtures \o ClaimSlice \o LoanSlice \o SummaSlice
ContractSet == {Contracts[i] : i \in DOMAIN Contracts}
ContractIndex(o) ==
  CHOOSE i \in DOMAIN Contracts :
    Contracts[i] = o /\ \A j \in 1..(i - 1) : Contracts[j] # o

(* ---------------- contracts cells (raw text) ---------------- *)
NaNText == [kind |-> "nan"]                  \* empty csv cell, read as NaN
EmptyText == [kind |-> "empty"]              \* ''
InvalidText == [kind |-> "invalid"]          \* '{bad'
NullText == [kind |-> "null"]                \* ' null'
StringText == [kind |-> "string"]            \* '"abc"'
EmptyStringText == [kind |-> "emptystring"]  \* '""'
NumberText == [kind |-> "number"]            \* '5'
BoolText == [kind |-> "bool"]                \* 'true'
ScalarArrayText == [kind |-> "scalararray"]  \* '[1, 2]'
ArrayText(items) == [kind |-> "array", items |-> items]
ObjectText(o) == [kind |-> "object", item |-> o]

ShapeTexts == {NaNText, EmptyText, InvalidText, NullText, StringText,
               EmptyStringText, NumberText, BoolText, ScalarArrayText,
               ArrayText(<<>>), ObjectText(ScenarioE)}

(* ---------------- sort_values / drop_duplicates (line 61) ---------------- *)
\* the sort key of a contracts cell: byte order of the texts above
\* ('' < ' null' < '""' < '"abc"' < '5' < '[1, 2]' < '[]' < '[{..}..]' <
\* 'true' < '{"..":..}' < '{bad'), NaN last as sort_values places it
RECURSIVE ItemsKey(_)
ItemsKey(items) ==
  IF items = <<>> THEN <<>>
  ELSE <<ContractIndex(Head(items))>> \o ItemsKey(Tail(items))

TextKey(text) ==
  CASE text.kind = "empty" -> <<0>>
    [] text.kind = "null" -> <<1>>
    [] text.kind = "emptystring" -> <<2>>
    [] text.kind = "string" -> <<3>>
    [] text.kind = "number" -> <<4>>
    [] text.kind = "scalararray" -> <<5>>
    [] text.kind = "array" ->
         IF text.items = <<>> THEN <<6>> ELSE <<7>> \o ItemsKey(text.items)
    [] text.kind = "bool" -> <<8>>
    [] text.kind = "object" -> <<9, ContractIndex(text.item)>>
    [] text.kind = "invalid" -> <<10>>
    [] text.kind = "nan" -> <<11>>

SortKey(rec) == <<rec.id>> \o rec.application_date \o TextKey(rec.contracts)

RECURSIVE LexLess(_, _)
LexLess(a, b) ==
  IF b = <<>> THEN FALSE
  ELSE IF a = <<>> THEN TRUE
  ELSE IF Head(a) # Head(b) THEN Head(a) < Head(b)
  ELSE LexLess(Tail(a), Tail(b))

RECURSIVE InsertSorted(_, _)
InsertSorted(rec, sorted) ==
  IF sorted = <<>> THEN <<rec>>
  ELSE IF LexLess(SortKey(rec), SortKey(Head(sorted)))
       THEN <<rec>> \o sorted
       ELSE <<Head(sorted)>> \o InsertSorted(rec, Tail(sorted))

\* mutant: the rows come back in reverse input order instead of key order
RECURSIVE sort_values_reversed(_)
sort_values_reversed(frame) ==
  IF frame = <<>> THEN <<>>
  ELSE <<frame[Len(frame)]>>
       \o sort_values_reversed(SubSeq(frame, 1, Len(frame) - 1))

\* data.sort_values(by=['id', 'application_date', 'contracts']), stable
RECURSIVE sort_values(_)
sort_values(frame) ==
  IF frame = <<>> THEN <<>>
  ELSE InsertSorted(frame[Len(frame)], sort_values(SubSeq(frame, 1, Len(frame) - 1)))

\* mutant: keep='first'
RECURSIVE drop_duplicates_keep_first(_)
drop_duplicates_keep_first(frame) ==
  IF frame = <<>> THEN <<>>
  ELSE LET last == frame[Len(frame)]
           init == SubSeq(frame, 1, Len(frame) - 1)
       IN IF \E j \in 1..Len(init) : init[j].contracts = last.contracts
          THEN drop_duplicates_keep_first(init)
          ELSE drop_duplicates_keep_first(init) \o <<last>>

\* .drop_duplicates(subset=['contracts'], keep='last')
RECURSIVE drop_duplicates(_)
drop_duplicates(frame) ==
  IF frame = <<>> THEN <<>>
  ELSE IF \E j \in 2..Len(frame) : frame[j].contracts = Head(frame).contracts
       THEN drop_duplicates(Tail(frame))
       ELSE <<Head(frame)>> \o drop_duplicates(Tail(frame))

(* ---------------- parse_contracts (lines 63-91) ---------------- *)
Get(contract, k) == IF k \in DOMAIN contract THEN Some(contract[k]) ELSE None

\* mutant: claim_id is read from the key 'contract_id'
ContractRow_wrong_key(rec, contract) ==
  [id |-> rec.id,
   application_date |-> rec.application_date,
   contract_id |-> Get(contract, "contract_id"),
   bank |-> Get(contract, "bank"),
   summa |-> Get(contract, "summa"),
   loan_summa |-> Get(contract, "loan_summa"),
   claim_date |-> Get(contract, "claim_date"),
   claim_id |-> Get(contract, "contract_id"),
   contract_date |-> Get(contract, "contract_date")]

ContractRow(rec, contract) ==
  [id |-> rec.id,
   application_date |-> rec.application_date,
   contract_id |-> Get(contract, "contract_id"),
   bank |-> Get(contract, "bank"),
   summa |-> Get(contract, "summa"),
   loan_summa |-> Get(contract, "loan_summa"),
   claim_date |-> Get(contract, "claim_date"),
   claim_id |-> Get(contract, "claim_id"),
   contract_date |-> Get(contract, "contract_date")]

\* one iteration of the loop over data.iterrows(): the rows appended and the
\* exception that leaves the loop, if any
RecordRows(rec) ==
  LET text == rec.contracts IN
  CASE text.kind \in {"nan", "empty"} -> [rows |-> <<>>, raised |-> "none"]
    [] text.kind = "invalid" -> [rows |-> <<>>, raised |-> "none"]
    [] text.kind \in {"number", "bool", "null"} ->
         [rows |-> <<>>, raised |-> "TypeError"]
    [] text.kind = "emptystring" -> [rows |-> <<>>, raised |-> "none"]
    [] text.kind \in {"string", "scalararray"} ->
         [rows |-> <<>>, raised |-> "AttributeError"]
    [] text.kind = "object" ->
         [rows |-> <<ContractRow(rec, text.item)>>, raised |-> "none"]
    [] text.kind = "array" ->
         [rows |-> [i \in 1..Len(text.items) |-> ContractRow(rec, text.items[i])],
          raised |-> "none"]

RECURSIVE LoopRows(_)
LoopRows(frame) ==
  IF frame = <<>> THEN [rows |-> <<>>, raised |-> "none"]
  ELSE LET first == RecordRows(Head(frame)) IN
       IF first.raised # "none" THEN first
       ELSE LET rest == LoopRows(Tail(frame)) IN
            [rows |-> first.rows \o rest.rows, raised |-> rest.raised]

parse_contracts(frame) == LoopRows(drop_duplicates(sort_values(frame)))

(* ---------------- column dtypes ---------------- *)
ContractColumns == {"contract_id", "bank", "summa", "loan_summa",
                    "claim_date", "claim_id", "contract_date"}

\* pd.read_csv: id is int64, or float64 when a value is not integral
CsvDtypes(id_dtype) ==
  [id |-> id_dtype, application_date |-> "object", contracts |-> "object"]

\* pd.DataFrame(rows): the nine keys of the appended dicts, and no column at
\* all when no dict was appended
RowsDtypes(rows, id_dtype) ==
  [c \in IF rows = <<>> THEN {}
         ELSE {"id", "application_date"} \cup ContractColumns |->
     IF c = "id" THEN id_dtype ELSE "object"]

\* the dtype pd.to_numeric(errors='coerce') gives a coerced column: int64 when
\* every cell is an integer, float64 when a cell is NaN
NumericDtype(rows, column) ==
  IF \A i \in 1..Len(rows) : rows[i][column] # None THEN "int64"
  ELSE "float64"

(* ---------------- convert_data_types (lines 142-153) ---------------- *)
\* mutant: a datetime64 column is parsed again as text, which fails to NaT
to_datetime_reparsed(x, dtype) ==
  IF dtype = "object" THEN to_datetime_dmy(x) ELSE None

\* pd.to_datetime(col, format='%d.%m.%Y', errors='coerce') by the dtype of
\* col: text is parsed, a datetime64 column is returned as it is
to_datetime(x, dtype) ==
  IF dtype = "object" THEN to_datetime_dmy(x) ELSE x

ConvertRow(row, types, by_explode) ==
  [row EXCEPT
     !.application_date = IF by_explode THEN @ ELSE to_datetime_app(@),
     !.claim_date = to_datetime(@, types.claim_date),
     !.contract_date = to_datetime(@, types.contract_date),
     !.summa = IF types.summa = "object" THEN to_numeric(@) ELSE @,
     !.loan_summa = IF types.loan_summa = "object" THEN to_numeric(@) ELSE @]

\* the columns the call subscripts, in the order of lines 142-151
ConvertedColumns(by_explode) ==
  (IF by_explode THEN {} ELSE {"id", "application_date"})
  \cup {"claim_date", "contract_date", "summa", "loan_summa"}

\* convert_data_types(df, by_explode): the exception that leaves the call, or
\* the coerced rows and their dtypes.
\*  - df[column] raises KeyError for a column the frame does not have;
\*  - astype('Int64') raises TypeError on a float64 column with a
\*    non-integral value (line 142);
\*  - the .str accessor raises AttributeError on a column that is not text
\*    (line 143).
convert_data_types(frame, types, by_explode) ==
  IF ~(ConvertedColumns(by_explode) \subseteq DOMAIN types)
  THEN [raised |-> "KeyError", rows |-> frame, dtypes |-> types]
  ELSE IF ~by_explode /\ types.id = "float64"
  THEN [raised |-> "TypeError", rows |-> frame, dtypes |-> types]
  ELSE IF ~by_explode /\ types.application_date # "object"
  THEN [raised |-> "AttributeError", rows |-> frame, dtypes |-> types]
  ELSE LET rows == [i \in 1..Len(frame) |->
                      ConvertRow(frame[i], types, by_explode)]
       IN [raised |-> "none",
           rows |-> rows,
           dtypes |->
             [c \in DOMAIN types |->
                CASE c = "id" -> IF by_explode THEN types[c] ELSE "Int64"
                  [] c = "application_date" ->
                       IF by_explode THEN types[c] ELSE "datetime64[ns]"
                  [] c \in {"claim_date", "contract_date"} -> "datetime64[ns]"
                  [] c \in {"summa", "loan_summa"} ->
                       IF types[c] = "object" THEN NumericDtype(rows, c)
                       ELSE types[c]
                  [] OTHER -> types[c]]]

(* ---------------- parse_contracts_by_explode (lines 109-118) ----------- *)
\* sort_values orders a datetime column by instant, NaT last
DateSortKey(date) == IF date = None THEN <<1, 0>> ELSE <<0, date[1]>>
KeyDate(key) == IF key[1] = 1 THEN None ELSE Some(key[2])

\* what json.loads (line 113) and explode (line 114) leave in place of one
\* cell: one element per list item, the keys of a dict, NaN for an empty
\* list, a scalar as it is. A dict element is Some(dict); every other
\* element is None, json_normalize turning it into a row of NaN.
ExplodeCell(text) ==
  CASE text.kind \in {"nan", "empty"} -> <<None>>
    [] text.kind \in {"null", "number", "bool", "string", "emptystring"} ->
         <<None>>
    [] text.kind = "scalararray" -> <<None, None>>
    [] text.kind = "object" ->
         IF DOMAIN text.item = {} THEN <<None>>
         ELSE [i \in 1..Cardinality(DOMAIN text.item) |-> None]
    [] text.kind = "array" ->
         IF text.items = <<>> THEN <<None>>
         ELSE [i \in 1..Len(text.items) |-> Some(text.items[i])]

\* the row pd.concat (line 116) makes of a record and one exploded element
NormalizedRow(rec, element) ==
  [c \in {"id", "application_date"} \cup ContractColumns |->
     CASE c = "id" -> rec.id
       [] c = "application_date" -> KeyDate(rec.application_date)
       [] OTHER -> IF element = None THEN None ELSE Get(element[1], c)]

RECURSIVE ExplodeRows(_)
ExplodeRows(frame) ==
  IF frame = <<>> THEN <<>>
  ELSE LET cell == ExplodeCell(Head(frame).contracts)
       IN [i \in 1..Len(cell) |-> NormalizedRow(Head(frame), cell[i])]
          \o ExplodeRows(Tail(frame))

\* the columns pd.json_normalize makes: the keys of the dicts it is given
NormalizedColumns(frame) ==
  UNION {UNION {DOMAIN frame[i].contracts.items[j] :
                  j \in 1..Len(frame[i].contracts.items)} :
           i \in {k \in 1..Len(frame) : frame[k].contracts.kind = "array"}}

\* parse_contracts_by_explode(data): the exception that leaves the call, or
\* the rows, columns and dtypes of the frame it returns
parse_contracts_by_explode(frame, types) ==
  IF types.id = "float64"
  THEN [raised |-> "TypeError", rows |-> <<>>, dtypes |-> types]
  ELSE LET keyed == [i \in 1..Len(frame) |->
                       [frame[i] EXCEPT !.application_date =
                                          DateSortKey(to_datetime_app(@))]]
           kept == drop_duplicates(sort_values(keyed))
       IN IF \E i \in 1..Len(kept) : kept[i].contracts.kind = "invalid"
          THEN [raised |-> "JSONDecodeError", rows |-> <<>>, dtypes |-> types]
          ELSE [raised |-> "none",
                rows |-> ExplodeRows(kept),
                dtypes |->
                  [c \in {"id", "application_date"}
                         \cup NormalizedColumns(kept) |->
                     CASE c = "id" -> "Int64"
                       [] c = "application_date" -> "datetime64[ns, UTC]"
                       [] OTHER -> "object"]]

(* ---------------- groupby('id') ---------------- *)
RECURSIVE SortedIds(_)
SortedIds(ids) ==
  IF ids = {} THEN <<>>
  ELSE LET least == CHOOSE x \in ids : \A y \in ids : x <= y
       IN <<least>> \o SortedIds(ids \ {least})

GroupKeys(df) == SortedIds({df[i].id : i \in 1..Len(df)})

Group(df, id) == LET InGroup(row) == row.id = id IN SelectSeq(df, InGroup)

(* ---------------- calculate_tot_claim_cnt_l180d (lines 175-182) -------- *)
WindowDays == 180

\* mutant: the window is open at its lower end
claims_in_last_180_days_exclusive(sub_df) ==
  LET app_date == sub_df[1].application_date
      InWindow(row) ==
        /\ row.claim_date # None /\ app_date # None
        /\ row.claim_date[1] > app_date[1] - WindowDays
        /\ row.claim_date[1] <= app_date[1]
      valid_claims == SelectSeq(sub_df, InWindow)
  IN IF Len(valid_claims) > 0 THEN Len(valid_claims) ELSE -3

claims_in_last_180_days(sub_df) ==
  LET app_date == sub_df[1].application_date
      last_180_days == IF app_date = None THEN None
                       ELSE Some(app_date[1] - WindowDays)
      InWindow(row) ==
        /\ row.claim_date # None /\ app_date # None
        /\ row.claim_date[1] >= last_180_days[1]
        /\ row.claim_date[1] <= app_date[1]
      valid_claims == SelectSeq(sub_df, InWindow)
  IN IF Len(valid_claims) > 0 THEN Len(valid_claims) ELSE -3

calculate_tot_claim_cnt_l180d(df) ==
  LET keys == GroupKeys(df) IN
  [g \in 1..Len(keys) |->
     [id |-> keys[g], value |-> claims_in_last_180_days(Group(df, keys[g]))]]

(* ---------------- calculate_disb_bank_loan_wo_tbc (lines 206-216) ------ *)
excluded_banks == {Some("LIZ"), Some("LOM"), Some("MKO"), Some("SUG"), None}

RECURSIVE SumLoanSumma(_)
SumLoanSumma(rows) ==
  IF rows = <<>> THEN 0
  ELSE (IF Head(rows).loan_summa = None THEN 0 ELSE Head(rows).loan_summa[1])
       + SumLoanSumma(Tail(rows))

ValidLoanWoTbc(row) ==
  /\ notna(row.bank)
  /\ row.bank \notin excluded_banks
  /\ notna(row.contract_date)

\* mutant: the sign of the sum is tested before the emptiness of the filter
sum_loans_wo_tbc_sum_first(sub_df) ==
  LET valid_loans == SelectSeq(sub_df, ValidLoanWoTbc)
      total_sum == SumLoanSumma(valid_loans)
  IN IF total_sum > 0 THEN total_sum
     ELSE IF Len(valid_loans) = 0 THEN -3 ELSE -1

sum_loans_wo_tbc(sub_df) ==
  LET valid_loans == SelectSeq(sub_df, ValidLoanWoTbc)
      total_sum == SumLoanSumma(valid_loans)
  IN IF Len(valid_loans) = 0 THEN -1
     ELSE IF total_sum > 0 THEN total_sum ELSE -3

calculate_disb_bank_loan_wo_tbc(df) ==
  LET keys == GroupKeys(df) IN
  [g \in 1..Len(keys) |->
     [id |-> keys[g], value |-> sum_loans_wo_tbc(Group(df, keys[g]))]]

\* the dtype of the Series groupby('id').apply(sum_loans_wo_tbc) builds from
\* the returned scalars: -1 and -3 are Python ints and total_sum has the
\* dtype of the loan_summa column, so the values are float64 only when some
\* group returns a total_sum of a float64 column
ReturnsTotalSum(sub_df) ==
  LET valid_loans == SelectSeq(sub_df, ValidLoanWoTbc)
  IN Len(valid_loans) # 0 /\ SumLoanSumma(valid_loans) > 0

AppliedDtype(frame, types) ==
  IF /\ types.loan_summa = "float64"
     /\ \E i \in 1..Len(frame) : ReturnsTotalSum(Group(frame, frame[i].id))
  THEN "float64"
  ELSE "int64"

(* ---------------- calculate_day_sinlastloan (lines 238-247) ------------ *)
\* mutant: max(skipna=False), one missing date makes the maximum missing
MaxContractDate_skipna_false(rows) ==
  IF \E i \in 1..Len(rows) : rows[i].contract_date = None THEN None
  ELSE IF rows = <<>> THEN None
  ELSE LET dates == {rows[i].contract_date[1] : i \in 1..Len(rows)}
       IN Some(CHOOSE m \in dates : \A x \in dates : x <= m)

RECURSIVE MaxContractDate(_)
MaxContractDate(rows) ==
  IF rows = <<>> THEN None
  ELSE LET rest == MaxContractDate(Tail(rows))
           first == Head(rows).contract_date
       IN IF first = None THEN rest
          ELSE IF rest = None THEN first
          ELSE IF first[1] >= rest[1] THEN first ELSE rest

\* mutant: the summa filter is dropped
ValidLoanSumma_no_filter(row) == row.id = row.id

ValidLoanSumma(row) == notna(row.summa) /\ row.summa[1] > 0

\* mutant: a difference of zero days is returned as 0
days_since_last_loan_nonneg(sub_df) ==
  LET valid_loans == SelectSeq(sub_df, ValidLoanSumma)
      last_loan_date == MaxContractDate(valid_loans)
      app_date == sub_df[1].application_date
      days_diff == IF app_date = None \/ last_loan_date = None THEN None
                   ELSE Some(app_date[1] - last_loan_date[1])
  IN IF valid_loans = <<>> THEN -1
     ELSE IF days_diff # None /\ days_diff[1] >= 0 THEN days_diff[1] ELSE -3

days_since_last_loan(sub_df) ==
  LET valid_loans == SelectSeq(sub_df, ValidLoanSumma)
      last_loan_date == MaxContractDate(valid_loans)
      app_date == sub_df[1].application_date
      days_diff == IF app_date = None \/ last_loan_date = None THEN None
                   ELSE Some(app_date[1] - last_loan_date[1])
  IN IF valid_loans = <<>> THEN -1
     ELSE IF days_diff # None /\ days_diff[1] > 0 THEN days_diff[1] ELSE -3

calculate_day_sinlastloan(df) ==
  LET keys == GroupKeys(df) IN
  [g \in 1..Len(keys) |->
     [id |-> keys[g], value |-> days_since_last_loan(Group(df, keys[g]))]]

(* ---------------- the assembling cell (lines 363-372) ------------------ *)
\* data[['id', 'application_date']].drop_duplicates()
RECURSIVE DistinctPairs(_, _)
DistinctPairs(df, seen) ==
  IF df = <<>> THEN <<>>
  ELSE LET pair == [id |-> Head(df).id,
                    application_date |-> Head(df).application_date]
       IN IF pair \in seen THEN DistinctPairs(Tail(df), seen)
          ELSE <<pair>> \o DistinctPairs(Tail(df), seen \cup {pair})

ApplicationDates(df) == DistinctPairs(df, {})

\* the rows that left row l yields in l.merge(right, on='id') (inner join)
MatchRows(l, right) ==
  LET Same(r) == r.id = l.id
      hits == SelectSeq(right, Same)
  IN [i \in 1..Len(hits) |->
        [id |-> l.id, application_date |-> hits[i].application_date,
         tot_claim_cnt_l180d |-> l.tot_claim_cnt_l180d,
         disb_bank_loan_wo_tbc |-> l.disb_bank_loan_wo_tbc,
         day_sinlastloan |-> l.day_sinlastloan]]

RECURSIVE MergeDates(_, _)
MergeDates(left, right) ==
  IF left = <<>> THEN <<>>
  ELSE MatchRows(Head(left), right) \o MergeDates(Tail(left), right)

\* tot.merge(disb, on='id').merge(day, on='id'): each frame has one row per
\* group key, in the same key order
MergeFeatures(tot, disb, day) ==
  LET Value(frame, id) ==
        (CHOOSE r \in {frame[i] : i \in 1..Len(frame)} : r.id = id).value
      Has(frame, id) == \E i \in 1..Len(frame) : frame[i].id = id
      Joined(row) == Has(disb, row.id) /\ Has(day, row.id)
      kept == SelectSeq(tot, Joined)
  IN [i \in 1..Len(kept) |->
        [id |-> kept[i].id,
         tot_claim_cnt_l180d |-> kept[i].value,
         disb_bank_loan_wo_tbc |-> Value(disb, kept[i].id),
         day_sinlastloan |-> Value(day, kept[i].id)]]

(* ---------------- inputs ---------------- *)
Ids == {1, 2}
\* "2024-02-01 <t0>", "2024-03-01 <t0>", "2024-03-01 <t1>"
AppDates == {<<2024, 2, 1, 0>>, <<2024, 3, 1, 0>>, <<2024, 3, 1, 1>>}
TableTexts == {NaNText, InvalidText, NumberText,
               ObjectText(ScenarioE), ArrayText(<<ScenarioA>>),
               ArrayText(<<ScenarioB, FullContract>>)}
TableRecords == [id : Ids, application_date : AppDates, contracts : TableTexts]

SeqsUpTo(S, n) == UNION {[1..k -> S] : k \in 1..n}

\* "2024-03-01 <t0>", "2024-02-01 <t0>", and "2024-02-30 <t0>" (no such day)
FeatAppDates == {<<2024, 3, 1, 0>>, <<2024, 2, 1, 0>>, <<2024, 2, 30, 0>>}
FeatTexts == ShapeTexts \cup {ArrayText(s) : s \in SeqsUpTo(ContractSet, MaxContracts)}
FeatRecords == [id : {1}, application_date : FeatAppDates, contracts : FeatTexts]

\* records of a file whose id column holds 1.5 and 2.5
FloatIdTexts == {NaNText, ArrayText(<<ScenarioA>>), ArrayText(<<FullContract>>)}
FloatIdRecords == [id : Ids, application_date : {<<2024, 3, 1, 0>>},
                   contracts : FloatIdTexts]

(* ---------------- the notebook ---------------- *)
Blank ==
  /\ pc = "read"
  /\ data = csv
  /\ deduped = <<>>
  /\ error = "none"
  /\ application_dates = <<>>
  /\ tot_claim_cnt_l180d = <<>>
  /\ disb_bank_loan_wo_tbc = <<>>
  /\ day_sinlastloan = <<>>
  /\ features_df = <<>>
  /\ dtypes = csv_dtypes
  /\ second_df = <<>>
  /\ second = "pending"
  /\ disb_dtype = "none"

\* data = pd.read_csv('data.csv'): a table of several application records
InitTable ==
  /\ csv \in SeqsUpTo(TableRecords, MaxRecords)
  /\ csv_dtypes = CsvDtypes("int64")
  /\ Blank

\* data = pd.read_csv('data.csv'): one application with a list of contracts
InitFeat ==
  /\ csv \in SeqsUpTo(FeatRecords, 1)
  /\ csv_dtypes = CsvDtypes("int64")
  /\ Blank

\* data = pd.read_csv('data.csv'): a file whose ids are not integers
InitFloatId ==
  /\ csv \in SeqsUpTo(FloatIdRecords, MaxRecords)
  /\ csv_dtypes = CsvDtypes("float64")
  /\ Blank

Init == InitTable \/ InitFeat \/ InitFloatId

\* data = parse_contracts(data)
ParseContracts ==
  /\ pc = "read"
  /\ LET out == parse_contracts(data) IN
       /\ deduped' = drop_duplicates(sort_values(data))
       /\ IF out.raised = "none"
          THEN /\ data' = out.rows
               /\ dtypes' = RowsDtypes(out.rows, csv_dtypes.id)
               /\ pc' = "parsed"
               /\ error' = error
          ELSE /\ data' = data
               /\ dtypes' = dtypes
               /\ pc' = "raised"
               /\ error' = out.raised
  /\ UNCHANGED <<csv, application_dates, tot_claim_cnt_l180d,
                 disb_bank_loan_wo_tbc, day_sinlastloan, features_df,
                 csv_dtypes, second_df, second, disb_dtype>>

\* data = convert_data_types(data, by_explode=False); pd.DataFrame([]) has no
\* columns, so df['id'] raises KeyError on an empty table
ConvertDataTypes ==
  /\ pc = "parsed"
  /\ LET out == convert_data_types(data, dtypes, FALSE) IN
       IF out.raised # "none"
       THEN /\ pc' = "raised"
            /\ error' = out.raised
            /\ data' = data
            /\ dtypes' = dtypes
       ELSE /\ pc' = "coerced"
            /\ error' = error
            /\ data' = out.rows
            /\ dtypes' = out.dtypes
  /\ UNCHANGED <<csv, deduped, application_dates, tot_claim_cnt_l180d,
                 disb_bank_loan_wo_tbc, day_sinlastloan, features_df,
                 csv_dtypes, second_df, second, disb_dtype>>

\* the cell of the second parsing option (lines 273-275):
\*   df = pd.read_csv('data.csv')
\*   df = parse_contracts_by_explode(data=df)
\*   df = convert_data_types(df=data, by_explode=True)
\* The last line coerces the frame in data, in place, and binds it to df; the
\* frame parse_contracts_by_explode returned is dropped. When
\* parse_contracts_by_explode raises, df is left as the frame read from the
\* file with the application_date it parsed in place (lines 109-111).
SecondOption ==
  /\ pc = "coerced"
  /\ second = "pending"
  /\ LET exploded == parse_contracts_by_explode(csv, csv_dtypes)
         out == convert_data_types(data, dtypes, TRUE)
     IN IF exploded.raised # "none"
        THEN /\ second' = exploded.raised
             /\ second_df' = [i \in 1..Len(csv) |->
                                [csv[i] EXCEPT !.application_date = to_datetime_app(@)]]
             /\ UNCHANGED <<data, dtypes>>
        ELSE IF out.raised # "none"
        THEN /\ second' = out.raised
             /\ second_df' = exploded.rows
             /\ UNCHANGED <<data, dtypes>>
        ELSE /\ second' = "ran"
             /\ second_df' = out.rows
             /\ data' = out.rows
             /\ dtypes' = out.dtypes
  /\ UNCHANGED <<pc, csv, deduped, error, application_dates,
                 tot_claim_cnt_l180d, disb_bank_loan_wo_tbc, day_sinlastloan,
                 features_df, csv_dtypes, disb_dtype>>

\* the cell that computes the features, merges them and writes the csv; it
\* is run after the cell of the second parsing option (execution counts 204
\* and 205), whatever that cell's outcome
AssembleFeatures ==
  /\ pc = "coerced"
  /\ second # "pending"
  /\ application_dates' = ApplicationDates(data)
  /\ tot_claim_cnt_l180d' = calculate_tot_claim_cnt_l180d(data)
  /\ disb_bank_loan_wo_tbc' = calculate_disb_bank_loan_wo_tbc(data)
  /\ day_sinlastloan' = calculate_day_sinlastloan(data)
  /\ features_df' =
       MergeDates(MergeFeatures(calculate_tot_claim_cnt_l180d(data),
                                calculate_disb_bank_loan_wo_tbc(data),
                                calculate_day_sinlastloan(data)),
                  ApplicationDates(data))
  /\ disb_dtype' = AppliedDtype(data, dtypes)
  /\ pc' = "done"
  /\ UNCHANGED <<csv, data, deduped, error, csv_dtypes, dtypes, second_df, second>>

Next ==
  ParseContracts \/ ConvertDataTypes \/ SecondOption \/ AssembleFeatures

Spec == Init /\ [][Next]_vars

TypeOK == pc \in {"read", "parsed", "coerced", "done", "raised"}

(* ======================= claims ======================= *)
Rows(frame) == {frame[i] : i \in 1..Len(frame)}
Normalized == pc \in {"parsed", "coerced", "done"}

\* the cells the claims call null, empty or not parseable as JSON
ZeroRowText(text) == text.kind \in {"nan", "empty", "invalid"}

\* C1: an application whose raw records all have a null, empty or
\* unparseable contracts cell (so that it contributes no contract row) still
\* has a row for its id in the final output, with the features -3, -1, -1.
C1_ZeroContractApplicationsInOutput ==
  pc = "done" =>
    \A i \in 1..Len(csv) :
      (\A j \in 1..Len(csv) :
         csv[j].id = csv[i].id => ZeroRowText(csv[j].contracts)) =>
        \E o \in Rows(features_df) :
          /\ o.id = csv[i].id
          /\ o.tot_claim_cnt_l180d = -3
          /\ o.disb_bank_loan_wo_tbc = -1
          /\ o.day_sinlastloan = -1

\* C2: the final output has exactly one row per distinct application id of
\* the normalized table.
C2_OneRowPerApplication ==
  pc = "done" =>
    /\ Len(features_df) = Cardinality({data[i].id : i \in 1..Len(data)})
    /\ \A i, j \in 1..Len(features_df) :
         features_df[i].id = features_df[j].id => i = j

\* C3: after the sort and the deduplication the surviving records are in
\* ascending (id, application_date, contracts) order; of the raw records
\* that share one contracts cell exactly one survives, the last in that
\* order; a record with a unique cell survives; and the normalized table
\* holds one set of contract rows per distinct cell.
CellRowCount(text) ==
  IF text.kind = "array" THEN Len(text.items)
  ELSE IF text.kind = "object" THEN 1 ELSE 0

RECURSIVE SumCellRows(_)
SumCellRows(texts) ==
  IF texts = {} THEN 0
  ELSE LET t == CHOOSE x \in texts : TRUE
       IN CellRowCount(t) + SumCellRows(texts \ {t})

C3_DedupKeepsLast ==
  pc # "read" =>
    /\ \A i \in 1..(Len(deduped) - 1) :
         ~LexLess(SortKey(deduped[i + 1]), SortKey(deduped[i]))
    /\ Rows(deduped) \subseteq Rows(csv)
    /\ \A i \in 1..Len(csv) :
         LET same == {j \in 1..Len(deduped) :
                        deduped[j].contracts = csv[i].contracts}
         IN /\ Cardinality(same) = 1
            /\ \A j \in same : ~LexLess(SortKey(deduped[j]), SortKey(csv[i]))
    /\ pc = "parsed" =>
         Len(data) = SumCellRows({csv[i].contracts : i \in 1..Len(csv)})

C3_Witness ==
  /\ pc = "parsed"
  /\ Len(csv) = 2
  /\ csv[1].contracts = csv[2].contracts
  /\ csv[1].id = csv[2].id
  /\ LexLess(csv[2].application_date, csv[1].application_date)
  /\ deduped = <<csv[1]>>
  /\ Len(data) = 2

\* C4: parse_contracts never raises on account of one record's contracts
\* cell: whatever the cells hold, the call returns the normalized table.
C4_ParseNeverRaises ==
  pc # "read" => ~(pc = "raised" /\ error \in {"TypeError", "AttributeError"})

(* ---- the aggregators, restated over the rows of one id ---- *)
IdRows(id) == {i \in 1..Len(data) : data[i].id = id}
FirstRow(id) == CHOOSE i \in IdRows(id) : \A j \in IdRows(id) : i <= j
\* the application date the aggregators read for the group of id
GroupDate(id) == data[FirstRow(id)].application_date
DataIds == {data[i].id : i \in 1..Len(data)}
OnePerId(frame) ==
  /\ {r.id : r \in Rows(frame)} = DataIds
  /\ Len(frame) = Cardinality(DataIds)
ValueOf(frame, id) == (CHOOSE r \in Rows(frame) : r.id = id).value

\* C5: for every id group, with A the application date of the group,
\* tot_claim_cnt_l180d is the number n of its rows with a claim_date in
\* [A - 180 days, A], both ends included, when n >= 1, and -3 when n = 0;
\* it is never 0.
ClaimsInWindow(id) ==
  LET A == GroupDate(id) IN
  {i \in IdRows(id) :
     /\ data[i].claim_date # None /\ A # None
     /\ data[i].claim_date[1] >= A[1] - 180
     /\ data[i].claim_date[1] <= A[1]}

C5_ClaimCountWindow ==
  pc = "done" =>
    /\ OnePerId(tot_claim_cnt_l180d)
    /\ \A id \in DataIds :
         LET n == Cardinality(ClaimsInWindow(id))
             v == ValueOf(tot_claim_cnt_l180d, id)
         IN /\ n >= 1 => v = n
            /\ n = 0 => v = -3
            /\ v # 0

\* the claims dated A - 181 and A - 180 days: only the second is counted
C5_Witness ==
  /\ pc = "done"
  /\ Len(data) = 2
  /\ DataIds = {1}
  /\ GroupDate(1) = Some(Ordinal(2024, 3, 1))
  /\ data[1].claim_date = Some(Ordinal(2024, 3, 1) - 181)
  /\ data[2].claim_date = Some(Ordinal(2024, 3, 1) - 180)
  /\ data[2].claim_date = Some(Ordinal(2023, 9, 3))
  /\ ValueOf(tot_claim_cnt_l180d, 1) = 1

\* C6: for every id group, disb_bank_loan_wo_tbc is -1 when no row has a
\* bank that is present and not one of LIZ, LOM, MKO, SUG together with a
\* present contract_date; otherwise, with S the sum of loan_summa over
\* those rows (a missing loan_summa adding nothing), it is -3 when S <= 0
\* and S when S > 0.
Eligible(id) ==
  {i \in IdRows(id) :
     /\ data[i].bank # None
     /\ data[i].bank[1] \notin {"LIZ", "LOM", "MKO", "SUG"}
     /\ data[i].contract_date # None}

LoanOf(i) == IF data[i].loan_summa = None THEN 0 ELSE data[i].loan_summa[1]

RECURSIVE SumLoans(_)
SumLoans(idx) ==
  IF idx = {} THEN 0
  ELSE LET i == CHOOSE x \in idx : TRUE
       IN LoanOf(i) + SumLoans(idx \ {i})

C6_DisbursedLoanSum ==
  pc = "done" =>
    /\ OnePerId(disb_bank_loan_wo_tbc)
    /\ \A id \in DataIds :
         LET S == SumLoans(Eligible(id))
             v == ValueOf(disb_bank_loan_wo_tbc, id)
         IN /\ Eligible(id) = {} => v = -1
            /\ Eligible(id) # {} /\ S <= 0 => v = -3
            /\ Eligible(id) # {} /\ S > 0 => v = S

\* an excluded bank's loan next to an eligible one: only the latter is summed
C6_Witness ==
  /\ pc = "done"
  /\ Len(data) = 2
  /\ DataIds = {1}
  /\ data[1].bank = Some("MKO") /\ data[1].loan_summa = Some(500)
  /\ data[1].contract_date # None
  /\ data[2].bank = Some("ALPHA") /\ data[2].loan_summa = Some(1000)
  /\ Eligible(1) = {2}
  /\ ValueOf(disb_bank_loan_wo_tbc, 1) = 1000

\* C7: for every id group, day_sinlastloan is -1 when no row has a summa
\* that is present and > 0; otherwise, with L the latest contract_date of
\* those rows and d the days from L to the application date, it is -3 when
\* d <= 0 and d when d > 0; it is always -1, -3 or > 0. A contract of
\* 01.01.2024 with summa 750 and the application date 2024-02-01 give 31.
Loans(id) == {i \in IdRows(id) : data[i].summa # None /\ data[i].summa[1] > 0}
Dated(id) == {i \in Loans(id) : data[i].contract_date # None}
LastLoan(id) ==
  CHOOSE L \in {data[i].contract_date[1] : i \in Dated(id)} :
    \A i \in Dated(id) : data[i].contract_date[1] <= L

ScenarioECsv ==
  <<[id |-> 1, application_date |-> <<2024, 2, 1, 0>>,
     contracts |-> ArrayText(<<ScenarioE>>)]>>

C7_DaysSinceLastLoan ==
  pc = "done" =>
    /\ OnePerId(day_sinlastloan)
    /\ \A id \in DataIds :
         LET v == ValueOf(day_sinlastloan, id) IN
         /\ Loans(id) = {} => v = -1
         /\ (Dated(id) # {} /\ GroupDate(id) # None) =>
              LET d == GroupDate(id)[1] - LastLoan(id)
              IN IF d <= 0 THEN v = -3 ELSE v = d
         /\ v \in {-1, -3} \/ v > 0
    /\ csv = ScenarioECsv => ValueOf(day_sinlastloan, 1) = 31

C7_Witness ==
  /\ pc = "done"
  /\ csv = ScenarioECsv
  /\ features_df = <<[id |-> 1, application_date |-> Some(Ordinal(2024, 2, 1)),
                      tot_claim_cnt_l180d |-> -3, disb_bank_loan_wo_tbc |-> -1,
                      day_sinlastloan |-> 31]>>

\* C8: in the normalized table all rows of one id carry the same
\* application date.
C8_OneApplicationDatePerId ==
  Normalized =>
    \A i, j \in 1..Len(data) :
      data[i].id = data[j].id =>
        data[i].application_date = data[j].application_date

\* C9: Scenario A. The application id=1 of 2024-03-01 with the one contract
\* {bank ALPHA, loan_summa "1000", contract_date 01.01.2024, claim_date
\* 01.01.2024} and no summa yields tot_claim_cnt_l180d = 1,
\* disb_bank_loan_wo_tbc = 1000 and day_sinlastloan = -1.
ScenarioACsv ==
  <<[id |-> 1, application_date |-> <<2024, 3, 1, 0>>,
     contracts |-> ArrayText(<<ScenarioA>>)]>>

ScenarioAOutput(day) ==
  <<[id |-> 1, application_date |-> Some(Ordinal(2024, 3, 1)),
     tot_claim_cnt_l180d |-> 1, disb_bank_loan_wo_tbc |-> 1000,
     day_sinlastloan |-> day]>>

C9_ScenarioA ==
  (csv = ScenarioACsv /\ pc = "done") => features_df = ScenarioAOutput(-1)

C9_Witness == csv = ScenarioACsv /\ pc = "done" /\ Len(features_df) = 1

\* C9 as first stated: Scenario A yields day_sinlastloan = -3.
C9_ScenarioA_AsStated ==
  (csv = ScenarioACsv /\ pc = "done") => features_df = ScenarioAOutput(-3)

\* C10: when parse_contracts returns, a surviving record whose cell is a
\* JSON array of k objects has yielded k rows and a single JSON object one
\* row, each row with the record's id and application_date and the seven
\* contract fields, a field absent from the object being missing; the table
\* holds these rows and no others.
ContractKeys == {"contract_id", "bank", "summa", "loan_summa", "claim_date",
                 "claim_id", "contract_date"}

ObjectsOf(text) ==
  IF text.kind = "array" THEN text.items
  ELSE IF text.kind = "object" THEN <<text.item>> ELSE <<>>

RECURSIVE RowsBefore(_)
RowsBefore(j) ==
  IF j <= 1 THEN 0
  ELSE RowsBefore(j - 1) + Len(ObjectsOf(deduped[j - 1].contracts))

C10_RowsPerRecord ==
  pc = "parsed" =>
    /\ Len(data) = RowsBefore(Len(deduped) + 1)
    /\ \A j \in 1..Len(deduped) :
         LET objs == ObjectsOf(deduped[j].contracts) IN
         \A k \in 1..Len(objs) :
           LET row == data[RowsBefore(j) + k] IN
           /\ row.id = deduped[j].id
           /\ row.application_date = deduped[j].application_date
           /\ DOMAIN row = ContractKeys \cup {"id", "application_date"}
           /\ \A key \in ContractKeys :
                row[key] = IF key \in DOMAIN objs[k] THEN <<objs[k][key]>>
                           ELSE <<>>

C10_Witness ==
  /\ pc = "parsed"
  /\ Len(deduped) = 2
  /\ deduped[1].contracts = ObjectText(ScenarioE)
  /\ deduped[2].contracts = ArrayText(<<ScenarioB, FullContract>>)
  /\ Len(data) = 3
  /\ data[1].bank = None
  /\ data[3].claim_id = Some("k1")

\* C14: the sort and deduplication of parse_contracts, run again on the
\* records that survived it, removes nothing and returns the same records
\* in the same order, hence the same contract rows.
C14_DedupIdempotent ==
  pc # "read" =>
    /\ drop_duplicates(sort_values(deduped)) = deduped
    /\ LoopRows(drop_duplicates(sort_values(deduped))).rows
         = LoopRows(deduped).rows

\* two records given out of key order with different contracts texts: the
\* first run reorders them, the second changes nothing
C14_Witness ==
  /\ pc = "parsed"
  /\ Len(csv) = 2
  /\ Len(deduped) = 2
  /\ deduped # csv
  /\ drop_duplicates(sort_values(deduped)) = deduped
  /\ Len(data) >= 2

\* C16: in calculate_day_sinlastloan, a group that has rows with summa > 0,
\* all of them without contract_date, gets -3; when only some of them lack
\* a contract_date the missing dates are ignored and the latest present
\* date is used.
C16_MissingContractDates ==
  pc = "done" =>
    \A id \in DataIds :
      LET v == ValueOf(day_sinlastloan, id) IN
      /\ (Loans(id) # {} /\ Dated(id) = {}) => v = -3
      /\ (Dated(id) # {} /\ Dated(id) # Loans(id) /\ GroupDate(id) # None) =>
           LET d == GroupDate(id)[1] - LastLoan(id)
           IN v = IF d > 0 THEN d ELSE -3

\* summa 750 without a date next to summa 750 of 01.01.2024, application
\* date 2024-03-01: 60 days
C16_Witness ==
  /\ pc = "done"
  /\ Len(data) = 2
  /\ DataIds = {1}
  /\ Loans(1) = {1, 2}
  /\ data[1].contract_date = None
  /\ data[2].contract_date = Some(Ordinal(2024, 1, 1))
  /\ GroupDate(1) = Some(Ordinal(2024, 3, 1))
  /\ ValueOf(day_sinlastloan, 1) = 60

\* a group whose only summa > 0 row has no contract_date: -3
C16_WitnessAllMissing ==
  /\ pc = "done"
  /\ Len(data) = 1
  /\ DataIds = {1}
  /\ Loans(1) = {1}
  /\ data[1].contract_date = None
  /\ ValueOf(day_sinlastloan, 1) = -3

\* C11 (as stated): convert_data_types with by_explode=False, applied to a
\* table it has already coerced, completes without error and returns a
\* table equal to its input.
C11_CoercionIdempotent ==
  pc = "coerced" =>
    LET again == convert_data_types(data, dtypes, FALSE)
    IN again.raised = "none" /\ again.rows = data

\* C11 (amended): applied to a table it has already coerced,
\* convert_data_types with by_explode=True completes without error and
\* returns the same rows with the same dtypes, which is what the second
\* parsing cell leaves in data and df; with by_explode=False the second
\* application raises AttributeError.
C11_RecoercionByExplode ==
  /\ pc = "coerced" =>
       LET again == convert_data_types(data, dtypes, TRUE)
           plain == convert_data_types(data, dtypes, FALSE)
       IN /\ again.raised = "none"
          /\ again.rows = data
          /\ again.dtypes = dtypes
          /\ plain.raised = "AttributeError"
  /\ second = "ran" => second_df = data

\* the second parsing cell has coerced again a table with a parsed claim
\* date, contract date, summa and loan_summa
C11_Witness ==
  /\ pc = "coerced"
  /\ second = "ran"
  /\ second_df = data
  /\ \E i \in 1..Len(data) :
       /\ data[i].claim_date # None
       /\ data[i].contract_date # None
       /\ data[i].summa # None
       /\ data[i].loan_summa # None
       /\ data[i].application_date # None

\* C12: the coercion call on a table with rows does not raise; an id that
\* cannot be coerced to an integer becomes missing.
C12_CoercionNeverRaises ==
  [][(pc = "parsed" /\ data # <<>>) => pc' = "coerced"]_vars

\* parse_contracts_by_explode followed by convert_data_types(by_explode=True)
\* on the file the notebook read
PathTwo ==
  LET exploded == parse_contracts_by_explode(csv, csv_dtypes)
  IN IF exploded.raised # "none" THEN exploded
     ELSE convert_data_types(exploded.rows, exploded.dtypes, TRUE)

\* C13: whenever the first path produced its table, the second path
\* completes and yields the same rows: same count, same id, application
\* date and contract fields per row.
C13_PathsEquivalent ==
  second # "pending" =>
    /\ PathTwo.raised = "none"
    /\ Len(PathTwo.rows) = Len(data)
    /\ Rows(PathTwo.rows) = Rows(data)

\* C15: the disb_bank_loan_wo_tbc column of every run is floating-point.
C15_DisbAlwaysFloat ==
  pc = "done" => disb_dtype = "float64"

====
